---- MODULE Spec2Model ----
(***************************************************************************)
(* Model of tschema (src/index.ts): the scan of a file's type aliases, the *)
(* memoized resolve(name), the recursive getTypeDefinition(t) and the two  *)
(* projection helpers pickProperties / dropProperties.                     *)
(*                                                                         *)
(* JavaScript values are modelled as follows.                              *)
(*   - a schema object is a function from field names to values; a field   *)
(*     that is absent from the object is absent from the DOMAIN;           *)
(*   - the value undefined is the record Undefined;                        *)
(*   - a `properties` object is shared by reference between a schema and   *)
(*     its shallow copies ({...x}), so it lives in `heap` and a schema     *)
(*     holds its address; it keeps its keys in insertion order;            *)
(*   - arrays (required, enum, allOf, oneOf, anyOf) are never updated in   *)
(*     place by the code, so they are held by value;                       *)
(*   - `required` holds Arr(seq) when it is an array and Str(text) when a  *)
(*     comment tag named "required" has overwritten it.                    *)
(* A call is evaluated in one step: operators take the engine state `st`   *)
(* and the call depth `d`, and return a completion record (Ok / Throw)     *)
(* that carries the state after the call.  The call stack is the only      *)
(* resource the recursion can exhaust: exceeding MaxDepth is the engine's  *)
(* RangeError.                                                             *)
(***************************************************************************)
EXTENDS Integers, Sequences, FiniteSets, TLC

VARIABLES file, decls, metaTypes, resolved, heap, log, pc, idx, err, pending,
          printed, pdef, pkeys, pout

vars == <<file, decls, metaTypes, resolved, heap, log, pc, idx, err, pending,
          printed, pdef, pkeys, pout>>

\* Call-stack limit of the engine (frames of resolve + getTypeDefinition).
MaxDepth == 16

-----------------------------------------------------------------------------
(* JavaScript values *)

Undefined == [undefined |-> TRUE]

EmptyObject == [k \in {} |-> Undefined]

Str(s) == [string |-> s]

Arr(a) == [array |-> a]

IsArr(v) == DOMAIN v = {"array"}

Range(s) == {s[i] : i \in DOMAIN s}

Has(o, k) == o # Undefined /\ k \in DOMAIN o

\* {...a, ...b}: the fields of b override those of a; spreading undefined
\* contributes nothing.
Spread(a, b) ==
  LET x == IF a = Undefined THEN EmptyObject ELSE a
      y == IF b = Undefined THEN EmptyObject ELSE b
  IN  [k \in DOMAIN x \cup DOMAIN y |-> IF k \in DOMAIN y THEN y[k] ELSE x[k]]

\* delete o[k]
Delete(o, k) == [f \in DOMAIN o \ {k} |-> o[f]]

\* o[k] = v
Set(o, k, v) == [f \in DOMAIN o \cup {k} |-> IF f = k THEN v ELSE o[f]]

(* `properties` objects: keys in insertion order + their values *)

NoProps == [keys |-> <<>>, val |-> EmptyObject]

PropSet(p, k, v) ==
  [keys |-> IF k \in Range(p.keys) THEN p.keys ELSE Append(p.keys, k),
   val  |-> Set(p.val, k, v)]

PropDelete(p, k) ==
  [keys |-> SelectSeq(p.keys, LAMBDA x : x # k),
   val  |-> Delete(p.val, k)]

\* p[k], undefined when k is not a key
PropGet(p, k) == IF k \in DOMAIN p.val THEN p.val[k] ELSE Undefined

\* Object.keys(p)
ObjectKeys(p) == p.keys

-----------------------------------------------------------------------------
(* Completion records *)

Ok(v, st) ==
  [status |-> "return", val |-> v, err |-> "", st |-> st, pending |-> <<>>]

Throw(e, st) ==
  [status |-> "throw", val |-> Undefined, err |-> e, st |-> st, pending |-> <<>>]

Logged(st, e) == [st EXCEPT !.log = Append(@, e)]

Alloc(st, p) == [st EXCEPT !.heap = Append(@, p)]

-----------------------------------------------------------------------------
(* Type AST nodes (read-only input).  `tags` are the JSDoc tags that        *)
(* ts.getJSDocTags(t.parent) yields for the node.                          *)

NoTags == EmptyObject

Keyword(k) == [kind |-> k, tags |-> NoTags]

PropertySignature(n, t, q) ==
  [name |-> n, type |-> t, questionToken |-> q, isPropertySignature |-> TRUE]

MethodSignature(n) ==
  [name |-> n, type |-> Keyword("StringKeyword"), questionToken |-> FALSE,
   isPropertySignature |-> FALSE]

TypeLiteral(ms) == [kind |-> "TypeLiteral", members |-> ms, tags |-> NoTags]

ArrayType(e) == [kind |-> "ArrayType", elementType |-> e, tags |-> NoTags]

\* a reference without <...>: typeArguments == null
NameRef(n) ==
  [kind |-> "TypeReference", typeName |-> n, hasTypeArguments |-> FALSE,
   typeArguments |-> <<>>, tags |-> NoTags]

TypeRef(n, args) ==
  [kind |-> "TypeReference", typeName |-> n, hasTypeArguments |-> TRUE,
   typeArguments |-> args, tags |-> NoTags]

StringLit(s) ==
  [kind |-> "LiteralType", literal |-> [kind |-> "StringLiteral", text |-> s],
   tags |-> NoTags]

NumericLit(s) ==
  [kind |-> "LiteralType", literal |-> [kind |-> "NumericLiteral", text |-> s],
   tags |-> NoTags]

TrueLit ==
  [kind |-> "LiteralType", literal |-> [kind |-> "TrueKeyword", text |-> "true"],
   tags |-> NoTags]

UnionType(ts) == [kind |-> "UnionType", types |-> ts, tags |-> NoTags]

IntersectionType(ts) == [kind |-> "IntersectionType", types |-> ts, tags |-> NoTags]

TypeOperator(op, t) ==
  [kind |-> "TypeOperator", operator |-> op, type |-> t, tags |-> NoTags]

\* checked: what typeChecker.getTypeFromTypeNode yields for the whole node,
\* for trueType and for falseType (flags and printed form together).
ConditionalType(tt, ft, whole, tsem, fsem) ==
  [kind |-> "ConditionalType", trueType |-> tt, falseType |-> ft,
   resolvedSem |-> whole, trueSem |-> tsem, falseSem |-> fsem, tags |-> NoTags]

Tagged(t, name, comment) == [t EXCEPT !.tags = Set(@, name, Str(comment))]

\* +text for the numeric literals of the input family
NumberOf(text) ==
  CASE text = "0" -> 0
    [] text = "1" -> 1
    [] text = "2" -> 2
    [] text = "01" -> 1
    [] OTHER -> 9

\* typeChecker.typeToString(a) === typeChecker.typeToString(b), flags equal
isSameType(a, b) ==
  IF a.flags # b.flags THEN FALSE ELSE a.text = b.text

-----------------------------------------------------------------------------
(* Deep value of a schema: `properties` addresses replaced by contents.     *)

RECURSIVE Deep(_, _)
Deep(s, h) ==
  IF s = Undefined THEN Undefined
  ELSE [k \in DOMAIN s |->
          IF k = "properties"
            THEN LET p == h[s[k]]
                 IN  [keys |-> p.keys,
                      val  |-> [n \in DOMAIN p.val |-> Deep(p.val[n], h)]]
          ELSE IF k = "items" THEN Deep(s[k], h)
          ELSE IF k \in {"allOf", "oneOf", "anyOf"}
            THEN [i \in DOMAIN s[k] |-> Deep(s[k][i], h)]
          ELSE s[k]]

-----------------------------------------------------------------------------
(* Schema projection helpers.  `keys` is Arr(seq), or Undefined when the    *)
(* key schema had no enum field.                                           *)

Failed(r) == r.status # "return"

IsObjectSchema(def) == Has(def, "type") /\ def.type = "object"

IsCombinator(def) == Has(def, "allOf") \/ Has(def, "oneOf") \/ Has(def, "anyOf")

\* def.required.filter(x => keys.includes(x))
RequiredIn(def, keys) ==
  SelectSeq(def.required.array, LAMBDA x : x \in Range(keys.array))

\* def.required.filter(x => !keys.includes(x))
RequiredNotIn(def, keys) ==
  SelectSeq(def.required.array, LAMBDA x : x \notin Range(keys.array))

\* def.required.filter is a TypeError unless required is an array
CanFilterRequired(def) == Has(def, "required") /\ IsArr(def.required)

\* the child list a combinator schema is projected over: allOf first, then
\* oneOf, then anyOf
CombinatorChildren(def) ==
  IF Has(def, "allOf") THEN def.allOf
  ELSE IF Has(def, "oneOf") THEN def.oneOf
  ELSE def.anyOf

RECURSIVE PickCopy(_, _, _, _)
\* keys.forEach(p => { properties[p] = def.properties[p]; })
PickCopy(src, ks, i, acc) ==
  IF i > Len(ks) THEN acc
  ELSE PickCopy(src, ks, i + 1, PropSet(acc, ks[i], PropGet(src, ks[i])))

RECURSIVE DropEach(_, _, _)
\* keys.forEach(p => { delete def.properties[p]; })
DropEach(p, ks, i) ==
  IF i > Len(ks) THEN p ELSE DropEach(PropDelete(p, ks[i]), ks, i + 1)

\* a relabelling that builds a fresh combinator instead of spreading def
RelabelFresh(def, children) == [allOf |-> children]

\* the object returned for a combinator: {...def, allOf: children}
Relabel(def, children) == Spread(def, [allOf |-> children])

\* the combinator branches, once the children are projected
Relabelled(def, r) == IF Failed(r) THEN r ELSE Ok(Relabel(def, r.val), r.st)

\* the object returned by pickProperties for an object schema
PickObject(def, addr, keys) ==
  Spread(def, [properties |-> addr, required |-> Arr(RequiredIn(def, keys))])

\* the object returned by dropProperties for an object schema
DropObject(def, keys) == Spread(def, [required |-> Arr(RequiredNotIn(def, keys))])

\* what falls off the end of pickProperties / dropProperties
NoProjection(def, st) == Ok(Undefined, st)

\* def.properties as read by the forEach of pickProperties
PickSource(def, st) ==
  IF Has(def, "properties") THEN st.heap[def.properties] ELSE NoProps

\* the object branch of pickProperties
PickFromObject(def, keys, st) ==
  IF keys = Undefined THEN Throw("TypeError", st)
  ELSE IF ~Has(def, "properties") /\ keys.array # <<>> THEN Throw("TypeError", st)
  ELSE IF ~CanFilterRequired(def) THEN Throw("TypeError", st)
  ELSE Ok(PickObject(def, Len(st.heap) + 1, keys),
          Alloc(st, PickCopy(PickSource(def, st), keys.array, 1, NoProps)))

RECURSIVE pickProperties(_, _, _)
RECURSIVE PickMap(_, _, _, _, _)
RECURSIVE PickMapped(_, _, _, _, _)

\* def.X.map(x => pickProperties(x, keys))
PickMap(children, i, acc, keys, st) ==
  IF i > Len(children) THEN Ok(acc, st)
  ELSE PickMapped(children, i, acc, keys, pickProperties(children[i], keys, st))

PickMapped(children, i, acc, keys, r) ==
  IF Failed(r) THEN r ELSE PickMap(children, i + 1, Append(acc, r.val), keys, r.st)

pickProperties(def, keys, st) ==
  IF def = Undefined THEN Throw("TypeError", st)
  ELSE IF IsObjectSchema(def) THEN PickFromObject(def, keys, st)
  ELSE IF IsCombinator(def)
    THEN Relabelled(def, PickMap(CombinatorChildren(def), 1, <<>>, keys, st))
  ELSE NoProjection(def, st)

\* the heap after keys.forEach(p => { delete def.properties[p]; })
DropInPlace(def, keys, st) ==
  [st EXCEPT !.heap[def.properties] = DropEach(@, keys.array, 1)]

\* the object branch of dropProperties: the deletions happen before the
\* filter of required can throw
DropFromObject(def, keys, st) ==
  IF keys = Undefined THEN Throw("TypeError", st)
  ELSE IF ~Has(def, "properties") THEN
    IF keys.array # <<>> THEN Throw("TypeError", st)
    ELSE IF ~CanFilterRequired(def) THEN Throw("TypeError", st)
    ELSE Ok(DropObject(def, keys), st)
  ELSE IF ~CanFilterRequired(def) THEN Throw("TypeError", DropInPlace(def, keys, st))
  ELSE Ok(DropObject(def, keys), DropInPlace(def, keys, st))

RECURSIVE dropProperties(_, _, _)
RECURSIVE DropMap(_, _, _, _, _)
RECURSIVE DropMapped(_, _, _, _, _)

\* def.X.map(x => dropProperties(x, keys))
DropMap(children, i, acc, keys, st) ==
  IF i > Len(children) THEN Ok(acc, st)
  ELSE DropMapped(children, i, acc, keys, dropProperties(children[i], keys, st))

DropMapped(children, i, acc, keys, r) ==
  IF Failed(r) THEN r ELSE DropMap(children, i + 1, Append(acc, r.val), keys, r.st)

dropProperties(def, keys, st) ==
  IF def = Undefined THEN Throw("TypeError", st)
  ELSE IF IsObjectSchema(def) THEN DropFromObject(def, keys, st)
  ELSE IF IsCombinator(def)
    THEN Relabelled(def, DropMap(CombinatorChildren(def), 1, <<>>, keys, st))
  ELSE NoProjection(def, st)

-----------------------------------------------------------------------------
(* The resolution engine.  st = [heap, resolved, log, nDerive]; `log` and   *)
(* `nDerive` only observe the run (calls made, values returned).  An        *)
(* operator named ...Derived / ...Done continues a branch with the          *)
(* completion record r of the call it has just made.                        *)

RECURSIVE getTypeDefinition(_, _, _)
RECURSIVE resolve(_, _, _)
RECURSIVE DeriveMembers(_, _, _, _, _)
RECURSIVE MemberDerived(_, _, _, _, _)
RECURSIVE DeriveMap(_, _, _, _, _)
RECURSIVE MapDerived(_, _, _, _, _)

\* getTypeDefinition(t.typeArguments[i - 1]); reading [i] of a missing
\* argument list, or .parent of a missing argument, is a TypeError
DeriveArg(t, i, st, d) ==
  IF ~t.hasTypeArguments \/ i > Len(t.typeArguments) THEN Throw("TypeError", st)
  ELSE getTypeDefinition(t.typeArguments[i], st, d + 1)

\* x.enum as string[]
EnumOf(x) == IF Has(x, "enum") THEN Arr(x.enum) ELSE Undefined

\* return {...r, ...jsdocTag}
Merged(t, r) == IF Failed(r) THEN r ELSE Ok(Spread(r.val, t.tags), r.st)

\* signatures.reduce((acc, x) => ({...acc, [name]: getTypeDefinition(x.type)}), {})
DeriveMembers(sigs, i, acc, st, d) ==
  IF i > Len(sigs) THEN Ok(acc, st)
  ELSE MemberDerived(sigs, i, acc, getTypeDefinition(sigs[i].type, st, d + 1), d)

MemberDerived(sigs, i, acc, r, d) ==
  IF Failed(r) THEN r
  ELSE DeriveMembers(sigs, i + 1, PropSet(acc, sigs[i].name, r.val), r.st, d)

\* t.types.map(getTypeDefinition)
DeriveMap(types, i, acc, st, d) ==
  IF i > Len(types) THEN Ok(acc, st)
  ELSE MapDerived(types, i, acc, getTypeDefinition(types[i], st, d + 1), d)

MapDerived(types, i, acc, r, d) ==
  IF Failed(r) THEN r ELSE DeriveMap(types, i + 1, Append(acc, r.val), r.st, d)

\* t.members.filter(ts.isPropertySignature)
Signatures(t) == SelectSeq(t.members, LAMBDA m : m.isPropertySignature)

\* signatures.filter(s => s.questionToken == null).map(s => s.name.getText())
RequiredNames(t) ==
  LET req == SelectSeq(Signatures(t), LAMBDA m : ~m.questionToken)
  IN  [i \in DOMAIN req |-> req[i].name]

TypeLiteralDone(t, r) ==
  IF Failed(r) THEN r
  ELSE Ok(Spread([type |-> "object", properties |-> Len(r.st.heap) + 1,
                  required |-> Arr(RequiredNames(t))], t.tags),
          Alloc(r.st, r.val))

TypeLiteralBranch(t, st, d) ==
  TypeLiteralDone(t, DeriveMembers(Signatures(t), 1, NoProps, st, d))

\* return {type: "array", items: r, ...jsdocTag}
ArrayOf(t, r) ==
  IF Failed(r) THEN r
  ELSE Ok(Spread([type |-> "array", items |-> r.val], t.tags), r.st)

\* an array branch that derives the array node again instead of its element
ArrayTypeBranchOnSelf(t, st, d) == ArrayOf(t, getTypeDefinition(t, st, d + 1))

ArrayTypeBranch(t, st, d) == ArrayOf(t, getTypeDefinition(t.elementType, st, d + 1))

\* a Partial that forgets `delete partialDef.required`
PartialKeepsRequired(partialDef, jsdocTag) == Spread(partialDef, jsdocTag)

\* delete partialDef.required; return {...partialDef, ...jsdocTag}
PartialResult(partialDef, jsdocTag) == Spread(Delete(partialDef, "required"), jsdocTag)

PartialDerived(t, r) ==
  IF Failed(r) THEN r
  ELSE Ok(PartialResult(r.val, t.tags),
          Logged(r.st, [ev |-> "Partial", tags |-> t.tags, arg |-> r.val,
                        out |-> PartialResult(r.val, t.tags)]))

PartialBranch(t, st, d) == PartialDerived(t, DeriveArg(t, 1, st, d))

RequiredDerived(t, r) ==
  IF Failed(r) THEN r
  ELSE IF ~Has(r.val, "properties") THEN Throw("TypeError", r.st)
  ELSE Ok(Spread(Set(r.val, "required", Arr(ObjectKeys(r.st.heap[r.val.properties]))),
                 t.tags), r.st)

RequiredBranch(t, st, d) == RequiredDerived(t, DeriveArg(t, 1, st, d))

\* Readonly, Exclude (argument 1) and Extract (argument 2)
PassThroughBranch(t, i, st, d) == Merged(t, DeriveArg(t, i, st, d))

\* what a Pick / Omit derivation did: the schema and keys it projected
\* (deep value before the call) and the outcome
ProjectionEvent(op, t, r1, r2, r3) ==
  [ev |-> op, def |-> Deep(r1.val, r2.st.heap), keys |-> EnumOf(r2.val),
   status |-> r3.status,
   out |-> IF Failed(r3) THEN Undefined ELSE Deep(Spread(r3.val, t.tags), r3.st.heap)]

\* return {...pickProperties(pickDef, pickKeys.enum), ...jsdocTag}
ProjectionDone(op, t, r1, r2, r3) ==
  IF Failed(r3) THEN Throw(r3.err, Logged(r3.st, ProjectionEvent(op, t, r1, r2, r3)))
  ELSE Ok(Spread(r3.val, t.tags), Logged(r3.st, ProjectionEvent(op, t, r1, r2, r3)))

PickKeysDerived(t, r1, r2) ==
  IF Failed(r2) THEN r2
  ELSE ProjectionDone("Pick", t, r1, r2, pickProperties(r1.val, EnumOf(r2.val), r2.st))

PickDefDerived(t, r1, d) ==
  IF Failed(r1) THEN r1 ELSE PickKeysDerived(t, r1, DeriveArg(t, 2, r1.st, d))

PickBranch(t, st, d) == PickDefDerived(t, DeriveArg(t, 1, st, d), d)

OmitKeysDerived(t, r1, r2) ==
  IF Failed(r2) THEN r2
  ELSE ProjectionDone("Omit", t, r1, r2, dropProperties(r1.val, EnumOf(r2.val), r2.st))

OmitDefDerived(t, r1, d) ==
  IF Failed(r1) THEN r1 ELSE OmitKeysDerived(t, r1, DeriveArg(t, 2, r1.st, d))

OmitBranch(t, st, d) == OmitDefDerived(t, DeriveArg(t, 1, st, d), d)

RECURSIVE RecordProps(_, _, _, _)
\* recordKeys.forEach(k => { properties[k] = {...recordType}; })
RecordProps(ks, i, recordType, acc) ==
  IF i > Len(ks) THEN acc
  ELSE RecordProps(ks, i + 1, recordType, PropSet(acc, ks[i], Spread(recordType, EmptyObject)))

RecordTypeDerived(t, r1, r2) ==
  IF Failed(r2) THEN r2
  ELSE IF EnumOf(r1.val) = Undefined THEN Throw("TypeError", r2.st)
  ELSE Ok(Spread([type |-> "object", properties |-> Len(r2.st.heap) + 1,
                  required |-> EnumOf(r1.val)], t.tags),
          Alloc(r2.st, RecordProps(r1.val.enum, 1, r2.val, NoProps)))

RecordKeysDerived(t, r1, d) ==
  IF Failed(r1) THEN r1 ELSE RecordTypeDerived(t, r1, DeriveArg(t, 2, r1.st, d))

RecordBranch(t, st, d) == RecordKeysDerived(t, DeriveArg(t, 1, st, d), d)

\* an empty else-branch that returned an empty schema instead of falling
\* through to the final throw
SilentGenericReference(t, st) == Ok(EmptyObject, st)

\* a reference with type arguments whose name is no recognized operator: the
\* empty else-branch falls out of the switch, no later test matches a type
\* reference, and the function ends in `throw new Error("unsupported node")`
UnsupportedGenericReference(t, st) == Throw("unsupported node", st)

GenericObserved(t, r) ==
  [r EXCEPT !.st = Logged(@, [ev |-> "generic", name |-> t.typeName,
                              status |-> r.status])]

NamedReferenceBranch(t, st, d) ==
  IF ~t.hasTypeArguments THEN Merged(t, resolve(t.typeName, st, d + 1))
  ELSE GenericObserved(t, UnsupportedGenericReference(t, st))

TypeReferenceBranch(t, st, d) ==
  CASE t.typeName = "Array"    -> ArrayOf(t, DeriveArg(t, 1, st, d))
    [] t.typeName = "Partial"  -> PartialBranch(t, st, d)
    [] t.typeName = "Required" -> RequiredBranch(t, st, d)
    [] t.typeName = "Readonly" -> PassThroughBranch(t, 1, st, d)
    [] t.typeName = "Pick"     -> PickBranch(t, st, d)
    [] t.typeName = "Record"   -> RecordBranch(t, st, d)
    [] t.typeName = "Exclude"  -> PassThroughBranch(t, 1, st, d)
    [] t.typeName = "Extract"  -> PassThroughBranch(t, 2, st, d)
    [] t.typeName = "Omit"     -> OmitBranch(t, st, d)
    [] t.typeName = "Date" ->
         Ok(Spread([type |-> "string", format |-> "time"], t.tags), st)
    [] t.typeName = "RegExp" ->
         Ok(Spread([type |-> "string", format |-> "regex"], t.tags), st)
    [] OTHER -> NamedReferenceBranch(t, st, d)

LiteralTypeBranch(t, st) ==
  IF t.literal.kind = "StringLiteral"
    THEN Ok(Spread([enum |-> <<t.literal.text>>], t.tags), st)
  ELSE IF t.literal.kind = "NumericLiteral"
    THEN Ok(Spread([enum |-> <<NumberOf(t.literal.text)>>], t.tags), st)
  ELSE Throw("unsupported node", st)

\* t.types.filter(ts.isLiteralTypeNode).map(l => l.literal)
Literals(t) ==
  LET lits == SelectSeq(t.types, LAMBDA x : x.kind = "LiteralType")
  IN  [i \in DOMAIN lits |-> lits[i].literal]

LiteralsOfKind(t, k) == SelectSeq(Literals(t), LAMBDA l : l.kind = k)

\* return {oneOf: ..., ...jsdocTag}
OneOf(t, r) == IF Failed(r) THEN r ELSE Ok(Spread([oneOf |-> r.val], t.tags), r.st)

UnionTypeBranch(t, st, d) ==
  IF /\ Len(Literals(t)) = Len(t.types)
     /\ Len(Literals(t)) = Len(LiteralsOfKind(t, "StringLiteral"))
    THEN Ok(Spread([enum |-> [i \in DOMAIN t.types |-> t.types[i].literal.text]],
                   t.tags), st)
  ELSE IF /\ Len(Literals(t)) = Len(t.types)
          /\ Len(Literals(t)) = Len(LiteralsOfKind(t, "NumericLiteral"))
    THEN Ok(Spread([enum |-> [i \in DOMAIN t.types |-> NumberOf(t.types[i].literal.text)]],
                   t.tags), st)
  ELSE OneOf(t, DeriveMap(t.types, 1, <<>>, st, d))

\* return {allOf: ..., ...jsdocTag}
AllOf(t, r) == IF Failed(r) THEN r ELSE Ok(Spread([allOf |-> r.val], t.tags), r.st)

IntersectionTypeBranch(t, st, d) == AllOf(t, DeriveMap(t.types, 1, <<>>, st, d))

KeyOfDerived(t, r) ==
  IF Failed(r) THEN r
  ELSE IF ~Has(r.val, "properties") THEN Throw("TypeError", r.st)
  ELSE Ok(Spread([enum |-> ObjectKeys(r.st.heap[r.val.properties])], t.tags), r.st)

TypeOperatorBranch(t, st, d) ==
  IF t.operator # "KeyOfKeyword" THEN Throw("unsupported node", st)
  ELSE KeyOfDerived(t, getTypeDefinition(t.type, st, d + 1))

ConditionalTypeBranch(t, st, d) ==
  IF isSameType(t.trueSem, t.falseSem)
    THEN Throw("bad conditional type, trueType equals falseType", st)
  ELSE IF isSameType(t.resolvedSem, t.trueSem)
    THEN Merged(t, getTypeDefinition(t.trueType, st, d + 1))
  ELSE Merged(t, getTypeDefinition(t.falseType, st, d + 1))

\* the dispatch of getTypeDefinition on the kind of t
Dispatch(t, st, d) ==
  CASE t.kind = "StringKeyword"  -> Ok(Spread([type |-> "string"], t.tags), st)
    [] t.kind = "NumberKeyword"  -> Ok(Spread([type |-> "number"], t.tags), st)
    [] t.kind = "BooleanKeyword" -> Ok(Spread([type |-> "boolean"], t.tags), st)
    [] t.kind \in {"NullKeyword", "UndefinedKeyword"} ->
         Ok(Spread([type |-> "null"], t.tags), st)
    [] t.kind = "TypeLiteral"      -> TypeLiteralBranch(t, st, d)
    [] t.kind = "ArrayType"        -> ArrayTypeBranch(t, st, d)
    [] t.kind = "TypeReference"    -> TypeReferenceBranch(t, st, d)
    [] t.kind = "LiteralType"      -> LiteralTypeBranch(t, st)
    [] t.kind = "UnionType"        -> UnionTypeBranch(t, st, d)
    [] t.kind = "IntersectionType" -> IntersectionTypeBranch(t, st, d)
    [] t.kind = "TypeOperator"     -> TypeOperatorBranch(t, st, d)
    [] t.kind = "ConditionalType"  -> ConditionalTypeBranch(t, st, d)
    [] OTHER -> Throw("unsupported node", st)

\* one more call of getTypeDefinition observed
Counted(st) == [st EXCEPT !.nDerive = @ + 1]

getTypeDefinition(t, st, d) ==
  IF d > MaxDepth THEN Throw("RangeError", st) ELSE Dispatch(t, Counted(st), d)

\* if (resolved[name]) return resolved[name]
CacheHit(name, st) == name \in DOMAIN st.resolved

\* resolved[name] = getTypeDefinition(decls[name])
CacheWrite(st, name, v) == [st EXCEPT !.resolved = Set(@, name, v)]

ResolveEvent(name, hit, v, h, n) ==
  [ev |-> "resolve", name |-> name, hit |-> hit, ret |-> Deep(v, h), derives |-> n]

\* resolved[name] = <r>; return resolved[name]
Derived(name, st, r) ==
  IF Failed(r) THEN [r EXCEPT !.pending = Append(@, name)]
  ELSE Ok(r.val, Logged(CacheWrite(r.st, name, r.val),
                        ResolveEvent(name, FALSE, r.val, r.st.heap,
                                     r.st.nDerive - st.nDerive)))

\* a resolve that enters a placeholder in the cache before deriving, which
\* is what cycle-aware resolution would do
resolveCycleAware(name, st, d) ==
  IF d > MaxDepth THEN Throw("RangeError", st)
  ELSE IF CacheHit(name, st) THEN
    Ok(st.resolved[name],
       Logged(st, ResolveEvent(name, TRUE, st.resolved[name], st.heap, 0)))
  ELSE IF name \in DOMAIN decls.val THEN
    Derived(name, st, getTypeDefinition(decls.val[name],
                                        CacheWrite(st, name, EmptyObject), d + 1))
  ELSE Throw("not found", st)

resolve(name, st, d) ==
  IF d > MaxDepth THEN Throw("RangeError", st)
  ELSE IF CacheHit(name, st) THEN
    Ok(st.resolved[name],
       Logged(st, ResolveEvent(name, TRUE, st.resolved[name], st.heap, 0)))
  ELSE IF name \in DOMAIN decls.val THEN
    Derived(name, st, getTypeDefinition(decls.val[name], st, d + 1))
  ELSE Throw("not found", st)

-----------------------------------------------------------------------------
(* The program: scan(rootNode), then resolve and print every declaration.   *)

\* the engine state read from the variables
EngineState == [heap |-> heap, resolved |-> resolved, log |-> log, nDerive |-> 0]

RECURSIVE ScanDecls(_, _, _)
\* scan: aliases without type parameters, by name, in file order
ScanDecls(f, i, acc) ==
  IF i > Len(f) THEN acc
  ELSE ScanDecls(f, i + 1,
                 IF f[i].typeParameters THEN acc ELSE PropSet(acc, f[i].name, f[i].type))

RECURSIVE ScanMeta(_, _, _)
\* scan: aliases with type parameters
ScanMeta(f, i, acc) ==
  IF i > Len(f) THEN acc
  ELSE ScanMeta(f, i + 1,
                IF f[i].typeParameters THEN PropSet(acc, f[i].name, f[i].type) ELSE acc)

\* JSON.stringify: a property whose value is undefined is left out, an
\* undefined array element is printed as null
RECURSIVE Stringify(_)
Stringify(v) ==
  IF v = Undefined THEN [null |-> TRUE]
  ELSE [k \in DOMAIN v |->
          IF k = "properties"
            THEN [keys |-> SelectSeq(v[k].keys, LAMBDA n : v[k].val[n] # Undefined),
                  val  |-> [n \in {m \in DOMAIN v[k].val : v[k].val[m] # Undefined} |->
                              Stringify(v[k].val[n])]]
          ELSE IF k = "items" THEN Stringify(v[k])
          ELSE IF k \in {"allOf", "oneOf", "anyOf"}
            THEN [i \in DOMAIN v[k] |-> Stringify(v[k][i])]
          ELSE v[k]]

Scan ==
  /\ pc = "scan"
  /\ decls' = ScanDecls(file, 1, NoProps)
  /\ metaTypes' = ScanMeta(file, 1, NoProps)
  /\ pc' = "resolve"
  /\ idx' = 1
  /\ UNCHANGED <<file, resolved, heap, log, err, pending, printed, pdef, pkeys, pout>>

\* the engine state after the call r, written back to the variables
Engine(r) ==
  /\ resolved' = r.st.resolved
  /\ heap' = r.st.heap
  /\ log' = r.st.log

\* console.log(JSON.stringify(resolve(k), null, 2)) with the call r returning
Printed(r) ==
  /\ r.status = "return"
  /\ Engine(r)
  /\ printed' = Append(printed, Stringify(Deep(r.val, r.st.heap)))
  /\ idx' = idx + 1
  /\ UNCHANGED <<file, decls, metaTypes, pc, err, pending, pdef, pkeys, pout>>

\* the call r throwing: the error is not caught and the program ends
Crashed(r) ==
  /\ r.status = "throw"
  /\ Engine(r)
  /\ err' = r.err
  /\ pending' = r.pending
  /\ pc' = "crashed"
  /\ UNCHANGED <<file, decls, metaTypes, idx, printed, pdef, pkeys, pout>>

\* one iteration of Object.keys(decls).forEach that prints the schema
ResolveReturns ==
  /\ pc = "resolve"
  /\ idx <= Len(decls.keys)
  /\ Printed(resolve(decls.keys[idx], EngineState, 1))

\* one iteration that throws
ResolveThrows ==
  /\ pc = "resolve"
  /\ idx <= Len(decls.keys)
  /\ Crashed(resolve(decls.keys[idx], EngineState, 1))

Finish ==
  /\ pc = "resolve"
  /\ idx > Len(decls.keys)
  /\ pc' = "done"
  /\ UNCHANGED <<file, decls, metaTypes, resolved, heap, log, idx, err, pending,
                 printed, pdef, pkeys, pout>>

-----------------------------------------------------------------------------
(* The scanned files: three aliases A, B, C.  A is a base type or refers to *)
(* itself, B is built from A or closed, C refers to A or B.                *)

TString == Keyword("StringKeyword")

TNumber == Keyword("NumberKeyword")

KeyX == StringLit("x")

KeysXY == UnionType(<<StringLit("x"), StringLit("y")>>)

\* { x: string; y?: number }
ObjXY == TypeLiteral(<<PropertySignature("x", TString, FALSE),
                       PropertySignature("y", TNumber, TRUE)>>)

\* { x: string; m(): string; z: boolean }
ObjXZ == TypeLiteral(<<PropertySignature("x", TString, FALSE),
                       MethodSignature("m"),
                       PropertySignature("z", Keyword("BooleanKeyword"), FALSE)>>)

SemA == [flags |-> 1, text |-> "string"]

SemB == [flags |-> 2, text |-> "number"]

BodiesA ==
  { ObjXY,
    TString,
    Tagged(ObjXY, "description", "d"),
    TypeLiteral(<<PropertySignature("x", TString, FALSE),
                  PropertySignature("next", NameRef("A"), TRUE)>>),
    ArrayType(NameRef("A")),
    NameRef("A"),
    NameRef("B"),
    TypeRef("Extract", <<NameRef("A"), TString>>),
    UnionType(<<ObjXY, ObjXZ>>) }

\* the type expressions built from a reference to n
Over(n) ==
  { NameRef(n),
    TypeRef("Omit", <<NameRef(n), KeyX>>),
    TypeRef("Pick", <<NameRef(n), KeyX>>),
    TypeRef("Pick", <<NameRef(n), KeysXY>>),
    TypeRef("Pick", <<TypeRef("Partial", <<NameRef(n)>>), KeyX>>),
    TypeRef("Pick", <<TypeRef("Required", <<NameRef(n)>>), KeysXY>>),
    TypeRef("Pick", <<NameRef(n), TypeOperator("KeyOfKeyword", NameRef(n))>>),
    TypeRef("Pick", <<UnionType(<<NameRef(n), TString>>), KeyX>>),
    TypeRef("Pick", <<UnionType(<<NameRef(n), ObjXZ>>), KeyX>>),
    TypeRef("Omit", <<IntersectionType(<<NameRef(n), ObjXZ>>), KeyX>>),
    TypeRef("Omit", <<TypeRef("Partial", <<NameRef(n)>>), KeyX>>),
    TypeRef("Partial", <<NameRef(n)>>),
    Tagged(TypeRef("Partial", <<NameRef(n)>>), "required", "yes"),
    Tagged(TypeRef("Partial", <<NameRef(n)>>), "description", "d"),
    TypeRef("Partial", <<UnionType(<<NameRef(n), TString>>)>>),
    TypeRef("Required", <<NameRef(n)>>),
    TypeRef("Readonly", <<NameRef(n)>>),
    TypeRef("Foo", <<NameRef(n)>>),
    TypeLiteral(<<PropertySignature("p", NameRef(n), FALSE),
                  PropertySignature("q", TypeRef("Foo", <<TString>>), TRUE)>>),
    TypeLiteral(<<PropertySignature("next", NameRef(n), FALSE)>>),
    ArrayType(NameRef(n)),
    TypeRef("Array", <<NameRef(n)>>),
    TypeRef("Record", <<KeysXY, NameRef(n)>>),
    TypeOperator("KeyOfKeyword", NameRef(n)),
    TypeRef("Exclude", <<NameRef(n), TString>>),
    ConditionalType(NameRef(n), TNumber, SemA, SemA, SemB),
    ConditionalType(TString, NameRef(n), SemB, SemA, SemB) }

\* type expressions without a reference
Closed ==
  { TypeRef("Pick", <<TString, KeyX>>),
    TypeRef("Omit", <<ArrayType(TString), KeyX>>),
    TypeRef("Pick", <<KeysXY, KeyX>>),
    TypeRef("Pick", <<TypeRef("Record", <<KeysXY, TString>>), KeyX>>),
    TypeRef("Pick", <<ObjXY, TString>>),
    TypeRef("Date", <<>>),
    NameRef("RegExp"),
    UnionType(<<NumericLit("1"), NumericLit("2")>>),
    UnionType(<<StringLit("x"), NumericLit("1")>>),
    UnionType(<<TrueLit, StringLit("x")>>),
    TypeOperator("ReadonlyKeyword", ArrayType(TString)),
    ConditionalType(TString, TNumber, SemA, SemA, SemA),
    Keyword("NullKeyword"),
    Keyword("AnyKeyword"),
    NameRef("Missing") }

BodiesB == Over("A") \cup Closed \cup {NameRef("C")}

BodiesC ==
  { NameRef("A"),
    NameRef("B"),
    TypeLiteral(<<PropertySignature("next", NameRef("A"), FALSE)>>),
    TypeRef("Pick", <<NameRef("B"), KeyX>>),
    TypeRef("Omit", <<NameRef("B"), KeyX>>),
    TypeRef("Partial", <<NameRef("B")>>),
    TypeRef("Foo", <<NameRef("A")>>) }

Alias(n, t, g) == [name |-> n, type |-> t, typeParameters |-> g]

AliasesC ==
  {Alias("C", t, FALSE) : t \in BodiesC} \cup {Alias("C", ObjXY, TRUE)}

Files ==
  {<<Alias("A", a, FALSE), Alias("B", b, FALSE), c>> :
     a \in BodiesA, b \in BodiesB, c \in AliasesC}

Init ==
  /\ file \in Files
  /\ decls = NoProps
  /\ metaTypes = NoProps
  /\ resolved = EmptyObject
  /\ heap = <<>>
  /\ log = <<>>
  /\ pc = "scan"
  /\ idx = 0
  /\ err = ""
  /\ pending = <<>>
  /\ printed = <<>>
  /\ pdef = Undefined
  /\ pkeys = Undefined
  /\ pout = Undefined

Next == Scan \/ ResolveReturns \/ ResolveThrows \/ Finish

Spec == Init /\ [][Next]_vars

-----------------------------------------------------------------------------
(* The projection helpers on their own: a schema and a key list are drawn   *)
(* from bounded sets and one of the two helpers is applied.                *)

\* most children of a combinator schema
MaxChildren == 3

ProjHeap ==
  << [keys |-> <<"x", "y">>, val |-> [x |-> [type |-> "string"], y |-> [type |-> "number"]]],
     [keys |-> <<"x", "z">>, val |-> [x |-> [type |-> "string"], z |-> [type |-> "boolean"]]] >>

ProjLeaves ==
  { [type |-> "object", properties |-> 1, required |-> Arr(<<"x">>)],
    [type |-> "object", properties |-> 2, required |-> Arr(<<"x", "z">>)],
    [type |-> "object", properties |-> 1],
    [type |-> "string"],
    [type |-> "array", items |-> [type |-> "string"]] }

ChildLists == UNION {[1..n -> ProjLeaves] : n \in 2..MaxChildren}

ProjSchemas ==
  ProjLeaves
    \cup {[allOf |-> c] : c \in ChildLists}
    \cup {[oneOf |-> c] : c \in ChildLists}
    \cup {[anyOf |-> c] : c \in ChildLists}
    \cup {[oneOf |-> <<[allOf |-> c], [type |-> "object", properties |-> 2,
                                        required |-> Arr(<<"x", "z">>)]>>] :
            c \in [1..2 -> ProjLeaves]}

ProjKeys == {Arr(<<"x">>), Arr(<<"y", "x">>), Arr(<<"z">>)}

InitProj ==
  /\ file = <<>>
  /\ decls = NoProps
  /\ metaTypes = NoProps
  /\ resolved = EmptyObject
  /\ heap = ProjHeap
  /\ log = <<>>
  /\ pc = "project"
  /\ idx = 0
  /\ err = ""
  /\ pending = <<>>
  /\ printed = <<>>
  /\ pdef \in ProjSchemas
  /\ pkeys \in ProjKeys
  /\ pout = Undefined

Projected(op, r) ==
  /\ pout' = [op |-> op, status |-> r.status, val |-> r.val,
              deep |-> Deep(r.val, r.st.heap)]
  /\ heap' = r.st.heap
  /\ pc' = "projected"
  /\ UNCHANGED <<file, decls, metaTypes, resolved, log, idx, err, pending, printed,
                 pdef, pkeys>>

ApplyPick ==
  /\ pc = "project"
  /\ Projected("pick", pickProperties(pdef, pkeys, EngineState))

ApplyDrop ==
  /\ pc = "project"
  /\ Projected("drop", dropProperties(pdef, pkeys, EngineState))

NextProj == ApplyPick \/ ApplyDrop

SpecProj == InitProj /\ [][NextProj]_vars

-----------------------------------------------------------------------------
(* Vocabulary of the properties *)

EventsOf(kind) == {i \in DOMAIN log : log[i].ev = kind}

\* the sub-nodes of a type node
Children(t) ==
  CASE t.kind = "TypeLiteral"      -> [i \in DOMAIN t.members |-> t.members[i].type]
    [] t.kind = "ArrayType"        -> <<t.elementType>>
    [] t.kind = "TypeReference"    -> t.typeArguments
    [] t.kind = "UnionType"        -> t.types
    [] t.kind = "IntersectionType" -> t.types
    [] t.kind = "TypeOperator"     -> <<t.type>>
    [] t.kind = "ConditionalType"  -> <<t.trueType, t.falseType>>
    [] OTHER -> <<>>

RECURSIVE Tagless(_)
Tagless(t) == t.tags = NoTags /\ \A i \in DOMAIN Children(t) : Tagless(Children(t)[i])

TaglessFile == \A i \in DOMAIN file : Tagless(file[i].type)

\* the names a type expression mentions
RECURSIVE Refs(_)
Refs(t) ==
  (IF t.kind = "TypeReference" THEN {t.typeName} ELSE {})
    \cup UNION {Refs(Children(t)[i]) : i \in DOMAIN Children(t)}

AliasNames == {file[i].name : i \in DOMAIN file}

BodyOf(n) == (CHOOSE i \in DOMAIN file : file[i].name = n)

RefersTo(n) == Refs(file[BodyOf(n)].type) \cap AliasNames

RECURSIVE ReachFrom(_, _)
\* the aliases reachable from the set s through references, in k more rounds
ReachFrom(s, k) ==
  IF k = 0 THEN s ELSE ReachFrom(s \cup UNION {RefersTo(n) : n \in s}, k - 1)

\* no alias reaches itself through a chain of references
AcyclicFile ==
  \A n \in AliasNames : n \notin ReachFrom(RefersTo(n), Cardinality(AliasNames))

Operators ==
  {"Array", "Partial", "Required", "Readonly", "Pick", "Record", "Exclude",
   "Extract", "Omit", "Date", "RegExp"}

\* t is a plain reference to the alias n
IsNameRefTo(t, n) ==
  t.kind = "TypeReference" /\ t.typeName = n /\ ~t.hasTypeArguments /\ n \notin Operators

\* the driver has called resolve(n) and the call is over
Called(n) ==
  /\ pc \in {"resolve", "done", "crashed"}
  /\ \E i \in DOMAIN decls.keys :
       decls.keys[i] = n /\ (i < idx \/ (i = idx /\ pc = "crashed"))

\* properties of an object schema given by deep value
KeysOf(v) == Range(v.properties.keys)

NoDuplicates(sq) == \A i, j \in DOMAIN sq : sq[i] = sq[j] => i = j

RequiredWithinProperties(v) ==
  (IsObjectSchema(v) /\ Has(v, "required") /\ IsArr(v.required)) =>
     /\ Has(v, "properties")
     /\ Range(v.required.array) \subseteq KeysOf(v)
     /\ NoDuplicates(v.required.array)

Unprojectable(v) == v = Undefined \/ (~IsObjectSchema(v) /\ ~IsCombinator(v))

RECURSIVE HasUnprojectablePart(_)
\* v, or a child of the combinator v, is neither an object schema nor a combinator
HasUnprojectablePart(v) ==
  IF Unprojectable(v) THEN TRUE
  ELSE IF IsObjectSchema(v) THEN FALSE
  ELSE \E i \in DOMAIN CombinatorChildren(v) : HasUnprojectablePart(CombinatorChildren(v)[i])

-----------------------------------------------------------------------------
(* C1: a Resolution Cache entry, once written, is never changed by a later  *)
(* resolve or derive call: every step keeps the entry and its deep content  *)
(* (properties and required included).                                     *)
C1_CacheEntryNeverChanges ==
  [][\A n \in DOMAIN resolved :
        /\ n \in DOMAIN resolved'
        /\ Deep(resolved'[n], heap') = Deep(resolved[n], heap)]_vars

(* C2: every call of resolve(D) after the first successful one is served    *)
(* from the cache, makes no derive call, and returns a schema structurally  *)
(* identical to the one the first call returned.                            *)
C2_SecondResolveIdentical ==
  \A i, j \in EventsOf("resolve") :
     (i < j /\ log[i].name = log[j].name /\ ~log[i].hit) =>
        /\ log[j].hit
        /\ log[j].derives = 0
        /\ log[j].ret = log[i].ret

(* C3: with no comment tags in the file, every type:"object" schema that    *)
(* resolve returned or that the cache holds lists in `required` only keys   *)
(* of its `properties`, without duplicates.                                 *)
C3_RequiredWithinProperties ==
  TaglessFile =>
     /\ \A n \in DOMAIN resolved : RequiredWithinProperties(Deep(resolved[n], heap))
     /\ \A i \in EventsOf("resolve") : RequiredWithinProperties(log[i].ret)

(* C4: derive(Pick<T,K>) succeeds with property keys exactly K whenever T   *)
(* derives to a type:"object" schema and K is a subset of its property      *)
(* names.                                                                   *)
C4_PickKeysExact ==
  \A i \in EventsOf("Pick") :
     LET e == log[i]
     IN  (/\ IsObjectSchema(e.def)
          /\ Has(e.def, "properties")
          /\ e.keys # Undefined
          /\ Range(e.keys.array) \subseteq KeysOf(e.def)) =>
            /\ e.status = "return"
            /\ KeysOf(e.out) = Range(e.keys.array)

(* C5 as stated: the schema returned by derive(Partial<T>) never has a      *)
(* `required` field.                                                        *)
C5_PartialNeverRequired ==
  \A i \in EventsOf("Partial") : "required" \notin DOMAIN log[i].out

(* C5, amended: the schema returned by derive(Partial<T>) has no `required` *)
(* field unless the Partial node itself carries a comment tag named         *)
(* "required" (tags are merged after the field is dropped).                 *)
C5_PartialUntaggedNeverRequired ==
  \A i \in EventsOf("Partial") :
     "required" \notin DOMAIN log[i].tags => "required" \notin DOMAIN log[i].out

C5_Witness ==
  \E i \in EventsOf("Partial") :
     /\ "required" \notin DOMAIN log[i].tags
     /\ "required" \in DOMAIN log[i].arg
     /\ "properties" \in DOMAIN log[i].out

(* C6: deriving a reference with type arguments whose name is not a         *)
(* recognized operator fails: the derivation throws, nothing runs after it, *)
(* and no declaration whose resolve was in progress gets a cache entry.     *)
C6_UnsupportedGenericFails ==
  EventsOf("generic") # {} =>
     /\ \A i \in EventsOf("generic") :
          log[i].status = "throw" /\ log[i].name \notin Operators
     /\ log[Len(log)].ev = "generic"
     /\ pc = "crashed"
     /\ err = "unsupported node"
     /\ pending # <<>>
     /\ \A n \in Range(pending) : n \notin DOMAIN resolved

C6_Witness ==
  /\ EventsOf("generic") # {}
  /\ pc = "crashed"
  /\ Len(pending) >= 2
  /\ DOMAIN resolved # {}

(* C7: a pick or omit projection of a schema that is, or has a combinator   *)
(* child that is, neither a type:"object" schema nor a combinator fails:    *)
(* derive(Pick<T,K>) and derive(Omit<T,K>) return no schema.                *)
C7_UnprojectableFails ==
  \A i \in EventsOf("Pick") \cup EventsOf("Omit") :
     HasUnprojectablePart(log[i].def) => log[i].status = "throw"

(* C8: when no alias of the file reaches itself through references, no      *)
(* resolve call exhausts the call stack: every call ends, by returning a    *)
(* schema or by failing with one of the engine's own errors.                *)
C8_AcyclicTerminates ==
  AcyclicFile => err # "RangeError"

C8_Witness ==
  /\ AcyclicFile
  /\ pc = "done"
  /\ Len(printed) = 3
  /\ \E i \in EventsOf("resolve") : log[i].hit /\ log[i].name = "B"
  /\ \E i \in EventsOf("resolve") : log[i].hit /\ log[i].name = "A"

\* deriving t resolves the alias n before any cache entry for n can exist
RECURSIVE DerivesRefTo(_, _)
DerivesRefTo(t, n) ==
  \/ IsNameRefTo(t, n)
  \/ /\ t.kind = "TypeLiteral"
     /\ \E i \in DOMAIN t.members :
          t.members[i].isPropertySignature /\ DerivesRefTo(t.members[i].type, n)
  \/ /\ t.kind = "ArrayType"
     /\ DerivesRefTo(t.elementType, n)

\* the body of alias n refers to n inside an object member or array element
WrappedSelfReference(n) ==
  LET t == file[BodyOf(n)].type
  IN  t.kind \in {"TypeLiteral", "ArrayType"} /\ DerivesRefTo(t, n)

SelfReference(n) == DerivesRefTo(file[BodyOf(n)].type, n)

(* C9 as stated: an alias that refers to itself only through an object      *)
(* member or an array element is resolved: resolve(A) returns and A is      *)
(* cached.                                                                  *)
C9_WrappedSelfReferenceResolves ==
  \A n \in AliasNames :
     (WrappedSelfReference(n) /\ Called(n)) => n \in DOMAIN resolved

(* C9, amended: resolution is memoized but not cycle-aware.  An alias whose *)
(* body refers to itself, directly (A = A) or inside an object member or    *)
(* array element (A = {next: A}, A = A[]), is never resolved: it never gets *)
(* a cache entry and the driver's resolve call for it ends the program with *)
(* an error - the exhausted call stack, unless another failure comes first. *)
C9_SelfReferenceNeverResolves ==
  \A n \in AliasNames :
     SelfReference(n) =>
        /\ n \notin DOMAIN resolved
        /\ Called(n) => pc = "crashed"

C9_Witness ==
  /\ WrappedSelfReference("A")
  /\ Called("A")
  /\ err = "RangeError"
  /\ "A" \in Range(pending)


\* out is what projecting the schema `in` by the keys ks must yield; both
\* are deep values, `in` taken before the call and out after it
RECURSIVE IsProjectionOf(_, _, _, _)
IsProjectionOf(op, out, in, ks) ==
  IF Unprojectable(in) THEN out = Undefined
  ELSE IF IsObjectSchema(in) THEN
    LET kept == IF op = "pick" THEN ks
                ELSE SelectSeq(in.properties.keys, LAMBDA k : k \notin Range(ks))
        req  == SelectSeq(in.required.array,
                          LAMBDA x : IF op = "pick" THEN x \in Range(ks)
                                     ELSE x \notin Range(ks))
    IN  /\ out # Undefined
        /\ DOMAIN out = DOMAIN in
        /\ out.type = "object"
        /\ out.properties.keys = kept
        /\ \A k \in Range(kept) :
             out.properties.val[k] = PropGet(in.properties, k)
        /\ out.required = Arr(req)
  ELSE /\ out # Undefined
       /\ DOMAIN out = DOMAIN in \cup {"allOf"}
       /\ Len(out.allOf) = Len(CombinatorChildren(in))
       /\ \A i \in DOMAIN out.allOf :
            IsProjectionOf(op, out.allOf[i], CombinatorChildren(in)[i], ks)

ProjectedCombinator ==
  pc = "projected" /\ IsCombinator(pdef) /\ pout.status = "return"

(* C10 as stated: projecting a combinator schema with n children returns a  *)
(* combinator with n children, the i-th being the projection of the i-th    *)
(* original child, re-labelled allOf: allOf is its only combinator field    *)
(* and the original oneOf / anyOf field is gone.                            *)
C10_ProjectionRelabelsAllOf ==
  ProjectedCombinator =>
     /\ IsProjectionOf(pout.op, pout.deep, Deep(pdef, ProjHeap), pkeys.array)
     /\ DOMAIN pout.val \cap {"oneOf", "anyOf"} = {}

(* C10, amended: projecting a combinator schema with n children returns a   *)
(* copy of it with an allOf field of exactly n children, the i-th being the *)
(* projection of the i-th original child; every other field of the input,   *)
(* its original oneOf / anyOf field included, is still present in the       *)
(* result, so that a projected oneOf / anyOf schema carries two combinator  *)
(* fields.                                                                  *)
C10_ProjectionAddsAllOf ==
  ProjectedCombinator =>
     /\ IsProjectionOf(pout.op, pout.deep, Deep(pdef, ProjHeap), pkeys.array)
     /\ \A k \in DOMAIN pdef \ {"allOf"} :
          k \in DOMAIN pout.val /\ pout.val[k] = pdef[k]

C10_Witness ==
  /\ ProjectedCombinator
  /\ Has(pdef, "anyOf")
  /\ Len(pdef.anyOf) = 3
  /\ Has(pout.val, "anyOf")
  /\ \E i \in DOMAIN pout.val.allOf : IsObjectSchema(pout.val.allOf[i])
  /\ \E i \in DOMAIN pout.val.allOf : pout.val.allOf[i] = Undefined

====
